---- MODULE Spec2Model ----
(***************************************************************************)
(* winaskpass: an SSH_ASKPASS helper that answers ssh/ssh-add/git prompts  *)
(* from the Windows Credential Manager or from a dialog.                   *)
(*                                                                         *)
(* A string is a sequence of characters, each character a one-character    *)
(* TLA+ string (the character U+1F511, outside the Basic Multilingual      *)
(* Plane, is written "U+1F511").  An Option<T> is a record                 *)
(* [some |-> BOOLEAN, val |-> T]; byte offsets of the Rust code are        *)
(* character offsets here (0-based, as in the code).                       *)
(***************************************************************************)
EXTENDS Integers, Sequences, FiniteSets, TLC

VARIABLES
    build,          \* cargo feature compiled in: "native" or "powershell"
    vault,          \* Windows Credential Manager: target name -> credential blob (UTF-16 units)
    pc,             \* position of the current invocation
    prompt,         \* args[1] of the current invocation
    is_host,        \* result of is_host_authenticity_prompt(prompt)
    key_path,       \* result of extract_key_path(prompt)
    get_result,     \* what credential::get_credential returned in this invocation
    ui,             \* what the user and the platform did in the dialog
    dlg_result,     \* what the dialog function returned in this invocation
    store_result,   \* what credential::store_credential returned in this invocation
    stdout,         \* sequence of strings written with print!
    stderr,         \* sequence of diagnostics written to stderr
    exit_code,      \* process exit status, -1 while running
    calls,          \* calls made in this invocation, in order
    invocations,    \* number of invocations started
    prev            \* summary of the previous invocation

vars == <<build, vault, pc, prompt, is_host, key_path, get_result, ui, dlg_result,
          store_result, stdout, stderr, exit_code, calls, invocations, prev>>

----------------------------------------------------------------------------
(* Bounds *)

\* Longest prompt of the text specification, in fragments.
MaxFrags == 4

\* Number of askpass invocations in one behaviour.
MaxInvocations == 2

----------------------------------------------------------------------------
(* Option<T> *)

None == [some |-> FALSE, val |-> <<>>]

Some(x) == [some |-> TRUE, val |-> x]

----------------------------------------------------------------------------
(* String literals of the source *)

\* "authenticity of host"
AuthenticityOfHost == <<"a","u","t","h","e","n","t","i","c","i","t","y"," ","o","f"," ","h","o","s","t">>

\* "continue connecting (yes/no"
ContinueConnecting == <<"c","o","n","t","i","n","u","e"," ","c","o","n","n","e","c","t","i","n","g"," ","(","y","e","s","/","n","o">>

\* "'"
Quote == <<"'">>

\* "for "
ForSpace == <<"f","o","r"," ">>

\* "yes"
Yes == <<"y","e","s">>

\* "no"
No == <<"n","o">>

\* "winaskpass:"
CREDENTIAL_PREFIX == <<"w","i","n","a","s","k","p","a","s","s",":">>

\* F applied to the value of e: e is evaluated once, where a LET would evaluate it
\* again at every use when TLC computes ENABLED
With(e, F(_)) == CHOOSE y \in {F(x) : x \in {e}} : TRUE

----------------------------------------------------------------------------
(* str primitives of the Rust standard library, as the code uses them *)

\* char::is_whitespace, on the characters of the model
IsWhitespace(c) == c \in {" ", "\t", "\n", "\r"}

\* &s[from..to], 0-based, to exclusive
Slice(s, from, to) == SubSeq(s, from + 1, to)

\* s[i..].starts_with(pat)
StartsWithAt(s, pat, i) == /\ i + Len(pat) <= Len(s)
                           /\ Slice(s, i, i + Len(pat)) = pat

RECURSIVE FindFrom(_, _, _)
FindFrom(s, pat, i) ==
    IF i + Len(pat) > Len(s) THEN None
    ELSE IF StartsWithAt(s, pat, i) THEN Some(i)
    ELSE FindFrom(s, pat, i + 1)

\* str::find: offset of the first match
find(s, pat) == FindFrom(s, pat, 0)

RECURSIVE RFindFrom(_, _, _)
RFindFrom(s, pat, i) ==
    IF i < 0 THEN None
    ELSE IF StartsWithAt(s, pat, i) THEN Some(i)
    ELSE RFindFrom(s, pat, i - 1)

\* A search for the last match that stops at the first one.
rfind_first(s, pat) == FindFrom(s, pat, 0)

\* str::rfind: offset of the last match
rfind(s, pat) == RFindFrom(s, pat, Len(s) - Len(pat))

\* str::contains
contains(s, pat) == find(s, pat).some

RECURSIVE trim_start(_)
trim_start(s) ==
    IF s # <<>> /\ IsWhitespace(Head(s)) THEN trim_start(Tail(s)) ELSE s

RECURSIVE trim_end(_)
trim_end(s) ==
    IF s # <<>> /\ IsWhitespace(s[Len(s)]) THEN trim_end(SubSeq(s, 1, Len(s) - 1)) ELSE s

\* str::trim
trim(s) == trim_end(trim_start(s))

RECURSIVE trim_end_matches(_, _)
\* str::trim_end_matches(char): removes every trailing occurrence
trim_end_matches(s, c) ==
    IF s # <<>> /\ s[Len(s)] = c THEN trim_end_matches(SubSeq(s, 1, Len(s) - 1), c) ELSE s

----------------------------------------------------------------------------
(* Prompt classifier, main.rs *)

\* A classifier that asks for both phrases.
is_host_both(p) ==
    contains(p, AuthenticityOfHost) /\ contains(p, ContinueConnecting)

is_host_authenticity_prompt(p) ==
    contains(p, AuthenticityOfHost) \/ contains(p, ContinueConnecting)

extract_key_path(p0) ==
    With(trim(p0), LAMBDA p :
    With(find(p, Quote), LAMBDA start :
    With(rfind(p, Quote), LAMBDA end :
        IF start.some /\ end.some /\ end.val > start.val
        THEN Some(Slice(p, start.val + 1, end.val))
        ELSE With(find(p, ForSpace), LAMBDA idx :
                 IF idx.some
                 THEN With(Slice(p, idx.val + 4, Len(p)), LAMBDA rest :
                      With(trim(trim_end_matches(rest, ":")), LAMBDA path :
                          IF path # <<>> THEN Some(path) ELSE None))
                 ELSE None))))

----------------------------------------------------------------------------
(* Characters and UTF-16 *)

\* Unicode scalar value of each character of the model
CodePoint ==
    " " :> 32 @@
    "'" :> 39 @@
    "(" :> 40 @@
    ")" :> 41 @@
    "," :> 44 @@
    "." :> 46 @@
    "/" :> 47 @@
    ":" :> 58 @@
    "?" :> 63 @@
    "@" :> 64 @@
    "A" :> 65 @@
    "B" :> 66 @@
    "E" :> 69 @@
    "I" :> 73 @@
    "N" :> 78 @@
    "O" :> 79 @@
    "P" :> 80 @@
    "S" :> 83 @@
    "T" :> 84 @@
    "V" :> 86 @@
    "_" :> 95 @@
    "a" :> 97 @@
    "b" :> 98 @@
    "c" :> 99 @@
    "d" :> 100 @@
    "e" :> 101 @@
    "f" :> 102 @@
    "g" :> 103 @@
    "h" :> 104 @@
    "i" :> 105 @@
    "k" :> 107 @@
    "l" :> 108 @@
    "n" :> 110 @@
    "o" :> 111 @@
    "p" :> 112 @@
    "r" :> 114 @@
    "s" :> 115 @@
    "t" :> 116 @@
    "u" :> 117 @@
    "w" :> 119 @@
    "y" :> 121 @@
    "|" :> 124 @@
    "\n" :> 10 @@
    "U+FFFD" :> 65533 @@
    "U+1F511" :> 128273

Alphabet == DOMAIN CodePoint

\* the character with scalar value cp
Chr(cp) == CHOOSE c \in Alphabet : CodePoint[c] = cp

\* char::encode_utf16
EncodeChar(c) ==
    LET cp == CodePoint[c]
    IN  IF cp < 65536 THEN <<cp>>
        ELSE <<55296 + ((cp - 65536) \div 1024), 56320 + ((cp - 65536) % 1024)>>

RECURSIVE encode_utf16(_)
\* str::encode_utf16
encode_utf16(s) == IF s = <<>> THEN <<>> ELSE EncodeChar(Head(s)) \o encode_utf16(Tail(s))

IsHighSurrogate(u) == u >= 55296 /\ u <= 56319

IsLowSurrogate(u) == u >= 56320 /\ u <= 57343

RECURSIVE from_utf16_lossy(_)
\* String::from_utf16_lossy: an unpaired surrogate becomes U+FFFD
from_utf16_lossy(u) ==
    IF u = <<>> THEN <<>>
    ELSE IF IsHighSurrogate(u[1]) /\ Len(u) >= 2 /\ IsLowSurrogate(u[2])
    THEN <<Chr(65536 + (u[1] - 55296) * 1024 + (u[2] - 56320))>>
             \o from_utf16_lossy(SubSeq(u, 3, Len(u)))
    ELSE IF IsHighSurrogate(u[1]) \/ IsLowSurrogate(u[1])
    THEN <<"U+FFFD">> \o from_utf16_lossy(Tail(u))
    ELSE <<Chr(u[1])>> \o from_utf16_lossy(Tail(u))

----------------------------------------------------------------------------
(* Prompts the askpass specification is invoked with *)

\* "Enter passphrase for /k/id_rsa: ": ssh-add, first attempt (the end-to-end example of the design)
PromptKeyFile == <<"E","n","t","e","r"," ","p","a","s","s","p","h","r","a","s","e"," ","f","o","r"," ","/","k","/","i","d","_","r","s","a",":"," ">>

\* "Enter passphrase for key '/k/id_rsa': ": ssh, key file in quotes
PromptKeyQuoted == <<"E","n","t","e","r"," ","p","a","s","s","p","h","r","a","s","e"," ","f","o","r"," ","k","e","y"," ","'","/","k","/","i","d","_","r","s","a","'",":"," ">>

\* "Bad passphrase, try again for /k/id_rsa: ": ssh-add, retry
PromptRetry == <<"B","a","d"," ","p","a","s","s","p","h","r","a","s","e",","," ","t","r","y"," ","a","g","a","i","n"," ","f","o","r"," ","/","k","/","i","d","_","r","s","a",":"," ">>

\* "Enter passphrase for /k/<U+1F511>: ": a key file named with a character outside the BMP
PromptUnicode == <<"E","n","t","e","r"," ","p","a","s","s","p","h","r","a","s","e"," ","f","o","r"," ","/","k","/","U+1F511",":"," ">>

\* "Enter PIN for '': ": a token with an empty label
PromptEmptyQuotes == <<"E","n","t","e","r"," ","P","I","N"," ","f","o","r"," ","'","'",":"," ">>

\* "Password: ": git, no subject
PromptBarePassword == <<"P","a","s","s","w","o","r","d",":"," ">>

\* "user@h's password: ": ssh password authentication, one quote character
PromptUserPassword == <<"u","s","e","r","@","h","'","s"," ","p","a","s","s","w","o","r","d",":"," ">>

\* "Are you sure you want to continue connecting (yes/no)?": ssh, old host-key question
PromptContinue == <<"A","r","e"," ","y","o","u"," ","s","u","r","e"," ","y","o","u"," ","w","a","n","t"," ","t","o"," ","c","o","n","t","i","n","u","e"," ","c","o","n","n","e","c","t","i","n","g"," ","(","y","e","s","/","n","o",")","?">>

\* "The authenticity of host 'h' can't be established.": ssh, unknown host
PromptAuthenticity == <<"T","h","e"," ","a","u","t","h","e","n","t","i","c","i","t","y"," ","o","f"," ","h","o","s","t"," ","'","h","'"," ","c","a","n","'","t"," ","b","e"," ","e","s","t","a","b","l","i","s","h","e","d",".">>

AskPrompts == {PromptKeyFile, PromptKeyQuoted, PromptRetry, PromptUnicode, PromptEmptyQuotes, PromptBarePassword, PromptUserPassword, PromptContinue, PromptAuthenticity}

\* What the user may type into the secret dialog
TypedSecrets == {<<>>, <<"p">>, <<" ", "p", " ">>, <<"p", "'", "U+1F511">>}

----------------------------------------------------------------------------
(* Result<Option<T>> of the backend and dialog functions *)

Ok(opt) == [ok |-> TRUE, opt |-> opt, err |-> ""]

Err(msg) == [ok |-> FALSE, opt |-> None, err |-> msg]

----------------------------------------------------------------------------
(* The vault: the Windows Credential Manager, generic credentials keyed by *)
(* the wide-character target name.  A credential blob is a byte count and  *)
(* the UTF-16 units it holds.                                              *)

EmptyVault == [t \in {} |-> <<>>]

Blob(units) == [size |-> Len(units) * 2, data |-> units]

\* CredReadW(target, CRED_TYPE_GENERIC): fault is a platform failure other than
\* "not found"
CredReadW(v, target_wide, fault) ==
    IF fault THEN [status |-> "error", blob |-> Blob(<<>>)]
    ELSE IF target_wide \notin DOMAIN v THEN [status |-> "not_found", blob |-> Blob(<<>>)]
    ELSE [status |-> "ok", blob |-> v[target_wide]]

\* CredWriteW(credential): creates or replaces the credential of that target
CredWriteW(v, target_wide, blob, fault) ==
    IF fault THEN [ok |-> FALSE, vault |-> v]
    ELSE [ok |-> TRUE,
          vault |-> [t \in DOMAIN v \cup {target_wide} |->
                        IF t = target_wide THEN blob ELSE v[t]]]

\* Result<()> of a store: the vault it leaves and the text of its error
StoreResult(w, err) == [ok |-> w.ok, vault |-> w.vault, err |-> err]

----------------------------------------------------------------------------
(* credential_native.rs *)

target_name(kp) == CREDENTIAL_PREFIX \o kp

native_get_credential(v, kp, fault) ==
    With(encode_utf16(target_name(kp)), LAMBDA target_wide :
    With(CredReadW(v, target_wide, fault), LAMBDA r :
        IF r.status = "ok"
        THEN IF r.blob.size = 0
             THEN Ok(None)
             ELSE Ok(Some(from_utf16_lossy(SubSeq(r.blob.data, 1, r.blob.size \div 2))))
        ELSE IF r.status = "not_found" THEN Ok(None)
        ELSE Err("Failed to read credential")))

\* A store that gives the blob's length in UTF-16 units where bytes are asked for.
native_store_units(v, kp, passphrase, fault) ==
    With(encode_utf16(target_name(kp)), LAMBDA target_wide :
    With(encode_utf16(passphrase), LAMBDA password_bytes :
    With(CredWriteW(v, target_wide,
                    [size |-> Len(password_bytes), data |-> password_bytes], fault), LAMBDA w :
        StoreResult(w, <<"CredWriteW failed">>))))

\* the error of a failed store is the platform's, it is made of the error code only
native_store_credential(v, kp, passphrase, fault) ==
    With(encode_utf16(target_name(kp)), LAMBDA target_wide :
    With(encode_utf16(passphrase), LAMBDA password_bytes :
    With(CredWriteW(v, target_wide, Blob(password_bytes), fault), LAMBDA w :
        StoreResult(w, <<"CredWriteW failed">>))))

\* CredEnumerateW(filter "winaskpass:*"): the targets that begin with the filter's
\* prefix, "not_found" when there is none
CredEnumerateW(v, prefix_wide, fault) ==
    LET found == {t \in DOMAIN v : StartsWithAt(t, prefix_wide, 0)}
    IN  IF fault THEN [status |-> "error", targets |-> {}]
        ELSE IF found = {} THEN [status |-> "not_found", targets |-> {}]
        ELSE [status |-> "ok", targets |-> found]

\* the orders in which the platform may hand out a set of credentials
Enumerations(S) ==
    {e \in [1..Cardinality(S) -> S] : \A i, j \in 1..Cardinality(S) : e[i] = e[j] => i = j}

ListOk(keys) == [ok |-> TRUE, keys |-> keys, err |-> ""]

ListErr(msg) == [ok |-> FALSE, keys |-> <<>>, err |-> msg]

RECURSIVE native_list_results(_)
\* the loop of list_credentials: the target names that carry the prefix, stripped
native_list_results(credentials) ==
    IF credentials = <<>> THEN <<>>
    ELSE LET name == from_utf16_lossy(Head(credentials))
         IN  (IF StartsWithAt(name, CREDENTIAL_PREFIX, 0)
              THEN <<Slice(name, Len(CREDENTIAL_PREFIX), Len(name))>>
              ELSE <<>>) \o native_list_results(Tail(credentials))

\* order: the order in which CredEnumerateW hands out the credentials it found
native_list_credentials(v, order, fault) ==
    LET r == CredEnumerateW(v, encode_utf16(CREDENTIAL_PREFIX), fault)
    IN  IF r.status = "ok" THEN ListOk(native_list_results(order))
        ELSE IF r.status = "not_found" THEN ListOk(<<>>)
        ELSE ListErr("Failed to enumerate credentials")

----------------------------------------------------------------------------
(* credential_powershell.rs: every operation is a PowerShell script run in *)
(* a child process; strings are spliced into the script between single     *)
(* quotes.                                                                 *)

RECURSIVE replace_quote(_)
\* str::replace("'", "''")
replace_quote(s) ==
    IF s = <<>> THEN <<>>
    ELSE IF Head(s) = "'" THEN <<"'", "'">> \o replace_quote(Tail(s))
    ELSE <<Head(s)>> \o replace_quote(Tail(s))

RECURSIVE PsSingleQuoted(_)
\* the value PowerShell reads from the text that follows an opening single quote:
\* a pair of quotes is one quote, a lone quote ends the literal
PsSingleQuoted(body) ==
    IF body = <<>> THEN <<>>
    ELSE IF Head(body) = "'"
    THEN IF Len(body) >= 2 /\ body[2] = "'"
         THEN <<"'">> \o PsSingleQuoted(SubSeq(body, 3, Len(body)))
         ELSE <<>>
    ELSE <<Head(body)>> \o PsSingleQuoted(Tail(body))

\* powershell(): the trimmed standard output of a script that succeeded
powershell(ran, out) == IF ran THEN Ok(Some(trim(out))) ELSE Err("PowerShell error")

\* what either script of get_credential writes: the password of the credential and
\* a line end, nothing when there is no credential or its blob is empty
PsPasswordOutput(v, target) ==
    With(encode_utf16(target), LAMBDA target_wide :
    With(CredReadW(v, target_wide, FALSE), LAMBDA r :
        IF r.status = "ok" /\ r.blob.size > 0
        THEN from_utf16_lossy(SubSeq(r.blob.data, 1, r.blob.size \div 2)) \o <<"\n">>
        ELSE <<>>))

\* ran1, ran2: whether the first script (CredentialManager module) and the
\* fallback script (CredReadW through .NET) ended successfully
powershell_get_credential(v, kp, ran1, ran2) ==
    With(PsSingleQuoted(replace_quote(target_name(kp)) \o <<"'">>), LAMBDA target :
    With(PsPasswordOutput(v, target), LAMBDA out :
    With(powershell(ran1, out), LAMBDA first :
    With(powershell(ran2, out), LAMBDA second :
        IF first.ok /\ first.opt.val # <<>> THEN Ok(Some(first.opt.val))
        ELSE IF ~second.ok THEN Err(second.err)
        ELSE IF second.opt.val = <<>> THEN Ok(None)
        ELSE Ok(Some(second.opt.val))))))

\* the last statement of the store script, the target and the passphrase spliced in
PsStoreStatement(kp, passphrase) ==
    <<"[CredentialWriter]::Write('">> \o replace_quote(target_name(kp)) \o <<"', '">>
        \o replace_quote(passphrase) \o <<"', '')">>

\* what a failed script leaves on its standard error is PowerShell's to choose: the
\* message of the exception alone ("message"), or the error record, which quotes the
\* statement that failed ("record")
PsStderr(statement, outcome) ==
    IF outcome = "record"
    THEN <<"CredWriteW failed", "At line: ">> \o statement
    ELSE <<"CredWriteW failed">>

\* outcome: "ok" when the script ended successfully, else what it left on stderr
powershell_store_credential(v, kp, passphrase, outcome) ==
    With(PsSingleQuoted(replace_quote(target_name(kp)) \o <<"'">>), LAMBDA target :
    With(PsSingleQuoted(replace_quote(passphrase) \o <<"'">>), LAMBDA password :
    With(encode_utf16(target), LAMBDA target_wide :
    With(Blob(encode_utf16(password)), LAMBDA blob :
    With(CredWriteW(v, target_wide, blob, outcome # "ok"), LAMBDA w :
        StoreResult(w, <<"PowerShell error: ">>
                           \o PsStderr(PsStoreStatement(kp, passphrase), outcome)))))))

RECURSIVE lines(_)
\* str::lines: the text between line feeds, a line feed at the very end ends the
\* last line and starts no new one
lines(s) ==
    IF s = <<>> THEN <<>>
    ELSE LET nl == find(s, <<"\n">>)
         IN  IF nl.some
             THEN <<Slice(s, 0, nl.val)>> \o lines(Slice(s, nl.val + 1, Len(s)))
             ELSE <<s>>

RECURSIVE PsJoin(_)
\* $results -join "`n"
PsJoin(results) ==
    IF results = <<>> THEN <<>>
    ELSE IF Len(results) = 1 THEN Head(results)
    ELSE Head(results) \o <<"\n">> \o PsJoin(Tail(results))

RECURSIVE PsListResults(_)
\* CredentialLister.List: the target names that start with the prefix, stripped
PsListResults(credentials) ==
    IF credentials = <<>> THEN <<>>
    ELSE LET name == from_utf16_lossy(Head(credentials))
         IN  (IF StartsWithAt(name, CREDENTIAL_PREFIX, 0)
              THEN <<Slice(name, Len(CREDENTIAL_PREFIX), Len(name))>>
              ELSE <<>>) \o PsListResults(Tail(credentials))

\* the script prints the joined names and a line end; CredEnumerateW returning
\* false, for a failure as for "not found", prints the line end alone
powershell_list_credentials(v, order, enum_fault, ran) ==
    LET r      == CredEnumerateW(v, encode_utf16(CREDENTIAL_PREFIX), enum_fault)
        joined == IF r.status = "ok" THEN PsJoin(PsListResults(order)) ELSE <<>>
        output == powershell(ran, joined \o <<"\n">>)
    IN  IF ~output.ok THEN ListErr(output.err)
        ELSE IF output.opt.val = <<>> THEN ListOk(<<>>)
        ELSE ListOk(lines(output.opt.val))

----------------------------------------------------------------------------
(* Dialogs.  An event is what the user and the platform did while the      *)
(* dialog was open; the functions turn it into their return value.         *)

Event(kind, typed, ticked) == [kind |-> kind, typed |-> typed, ticked |-> ticked]

NoEvent == Event("none", <<>>, FALSE)

\* Result<Option<PromptResult>>, and Result<Option<String>> with save = FALSE
DlgSome(val, save) == [kind |-> "some", val |-> val, save |-> save, err |-> ""]

DlgNone == [kind |-> "none", val |-> <<>>, save |-> FALSE, err |-> ""]

DlgErr(msg) == [kind |-> "err", val |-> <<>>, save |-> FALSE, err |-> msg]

NoDialog == [kind |-> "not_called", val |-> <<>>, save |-> FALSE, err |-> ""]

\* MessageBoxW(MB_YESNOCANCEL): the button pressed, or 0 when the call fails
NativeConfirmEvents == {Event(k, <<>>, FALSE) : k \in {"IDYES", "IDNO", "IDCANCEL", "0"}}

\* A confirmation that answers "yes" for either button.
native_prompt_confirmation_yes(ev) ==
    IF ev.kind \in {"IDYES", "IDNO"} THEN DlgSome(Yes, FALSE) ELSE DlgNone

\* dialog_native.rs
native_prompt_confirmation(ev) ==
    IF ev.kind = "IDYES" THEN DlgSome(Yes, FALSE)
    ELSE IF ev.kind = "IDNO" THEN DlgSome(No, FALSE)
    ELSE DlgNone

\* CredUIPromptForWindowsCredentialsW and the packing around it
NativeSecretEvents ==
    {Event(k, <<>>, FALSE) : k \in {"pack_failed", "ERROR_CANCELLED", "api_error", "unpack_failed"}}
        \cup {Event("ok", t, b) : t \in TypedSecrets, b \in BOOLEAN}

\* dialog_native.rs; the check box exists only with CREDUIWIN_CHECKBOX, and save
\* stays false without it
native_prompt_password(ev, show_save_checkbox) ==
    IF ev.kind = "pack_failed" THEN DlgErr("Failed to pack authentication buffer")
    ELSE IF ev.kind = "ERROR_CANCELLED" THEN DlgNone
    ELSE IF ev.kind = "api_error"
    THEN DlgErr("CredUIPromptForWindowsCredentialsW failed with error code")
    ELSE IF ev.kind = "unpack_failed" THEN DlgErr("Failed to unpack authentication buffer")
    ELSE LET pass_buf == encode_utf16(ev.typed) \o <<0>>
             pass_len == Len(pass_buf)
         IN  DlgSome(from_utf16_lossy(SubSeq(pass_buf, 1, pass_len - 1)),
                     show_save_checkbox /\ ev.ticked)

\* the confirmation dialog of the PowerShell build (dialog_powershell):
\* confirm(prompt_text) -> {Yes, No, Cancelled}, or a dialog error
PowershellConfirmEvents == {Event(k, <<>>, FALSE) : k \in {"Yes", "No", "Cancelled", "Error"}}

powershell_prompt_confirmation(ev) ==
    IF ev.kind = "Yes" THEN DlgSome(Yes, FALSE)
    ELSE IF ev.kind = "No" THEN DlgSome(No, FALSE)
    ELSE IF ev.kind = "Cancelled" THEN DlgNone
    ELSE DlgErr("PowerShell error")

\* the PowerShell child process of dialog.rs
PowershellSecretEvents ==
    {Event(k, <<>>, FALSE) : k \in {"spawn_failed", "cancelled", "failed_1223",
                                    "failed_no_output", "failed_with_output"}}
        \cup {Event("ok", t, b) : t \in TypedSecrets, b \in BOOLEAN}

\* "SAVE|" and "NOSAVE|"
SavePrefix == <<"S", "A", "V", "E", "|">>

NoSavePrefix == <<"N", "O">> \o SavePrefix

\* str::strip_prefix
strip_prefix(s, pre) ==
    IF Len(s) >= Len(pre) /\ SubSeq(s, 1, Len(pre)) = pre
    THEN Some(SubSeq(s, Len(pre) + 1, Len(s)))
    ELSE None

\* dialog.rs
powershell_prompt_password(ev) ==
    IF ev.kind = "spawn_failed" THEN DlgErr("Failed to execute PowerShell")
    ELSE IF ev.kind \in {"failed_1223", "failed_no_output"} THEN DlgNone
    ELSE IF ev.kind = "failed_with_output" THEN DlgErr("PowerShell error")
    ELSE LET out    == IF ev.kind = "cancelled" THEN <<>>
                       ELSE (IF ev.ticked THEN SavePrefix ELSE NoSavePrefix)
                                \o ev.typed \o <<"\n">>
             result == trim(out)
         IN  IF result = <<>> THEN DlgNone
             ELSE IF strip_prefix(result, SavePrefix).some
             THEN DlgSome(strip_prefix(result, SavePrefix).val, TRUE)
             ELSE IF strip_prefix(result, NoSavePrefix).some
             THEN DlgSome(strip_prefix(result, NoSavePrefix).val, FALSE)
             ELSE DlgSome(result, FALSE)

----------------------------------------------------------------------------
(* Prompts of the text specification: every concatenation of at most       *)
(* MaxFrags fragments, among them the phrases the classifier looks for, a  *)
(* case variant of one, and the characters extract_key_path looks at.      *)

\* "Authenticity of host": differs from the phrase in case only
AuthenticityCapital == <<"A">> \o Tail(AuthenticityOfHost)

Fragments == {AuthenticityOfHost, AuthenticityCapital, ContinueConnecting,
              ForSpace, Quote, <<":">>, <<" ">>, <<"\"">>}

RECURSIVE Concat(_)
Concat(fs) == IF fs = <<>> THEN <<>> ELSE Head(fs) \o Concat(Tail(fs))

TextPrompts == UNION {{Concat(fs) : fs \in [1..n -> Fragments]} : n \in 0..MaxFrags}

----------------------------------------------------------------------------
(* State of an invocation before main runs *)

NoResult == [called |-> FALSE, ok |-> FALSE, opt |-> None, err |-> ""]

Returned(r) == [called |-> TRUE, ok |-> r.ok, opt |-> r.opt, err |-> r.err]

NoPrev == [valid |-> FALSE, prompt |-> <<>>, key_path |-> None, get_result |-> NoResult,
           dlg_result |-> NoDialog, store_result |-> NoResult,
           stdout |-> <<>>, stderr |-> <<>>, exit_code |-> -1, pc |-> "none",
           vault |-> EmptyVault]

Fresh(p) ==
    /\ prompt = p
    /\ is_host = FALSE
    /\ key_path = None
    /\ get_result = NoResult
    /\ ui = NoEvent
    /\ dlg_result = NoDialog
    /\ store_result = NoResult
    /\ stdout = <<>>
    /\ stderr = <<>>
    /\ exit_code = -1
    /\ calls = <<>>

----------------------------------------------------------------------------
(* Text specification: the unit tests of main.rs call the two classifier   *)
(* functions directly on a prompt.                                         *)

InitText ==
    /\ build = "native"
    /\ vault = EmptyVault
    /\ pc = "test"
    /\ \E p \in TextPrompts : Fresh(p)
    /\ invocations = 0
    /\ prev = NoPrev

TestClassify ==
    /\ pc = "test"
    /\ is_host' = is_host_authenticity_prompt(prompt)
    /\ pc' = "classified"
    /\ UNCHANGED <<build, vault, prompt, key_path, get_result, ui, dlg_result, store_result,
                   stdout, stderr, exit_code, calls, invocations, prev>>

TestExtract ==
    /\ pc = "classified"
    /\ key_path' = extract_key_path(prompt)
    /\ pc' = "extracted"
    /\ UNCHANGED <<build, vault, prompt, is_host, get_result, ui, dlg_result, store_result,
                   stdout, stderr, exit_code, calls, invocations, prev>>

NextText == TestClassify \/ TestExtract

SpecText == InitText /\ [][NextText]_vars

----------------------------------------------------------------------------
(* Askpass specification: main.rs, handle_askpass, one step for each call  *)
(* that leaves the process.  The build selects the backend and the dialog. *)

Terminal == {"done", "cancelled", "failed"}

Call(op, text, flag) == [op |-> op, text |-> text, flag |-> flag]

Called(op) == \E i \in 1..Len(calls) : calls[i].op = op

get_credential(v, kp, f1, f2) ==
    IF build = "native" THEN native_get_credential(v, kp, f1)
    ELSE powershell_get_credential(v, kp, ~f1, ~f2)

\* how a store may end: successfully, or failing; a failed script leaves one of two
\* texts, the native store has one text for every failure
StoreOutcomes == {"ok", "message"} \cup (IF build = "powershell" THEN {"record"} ELSE {})

store_credential(v, kp, passphrase, outcome) ==
    IF build = "native" THEN native_store_credential(v, kp, passphrase, outcome # "ok")
    ELSE powershell_store_credential(v, kp, passphrase, outcome)

list_credentials(v, order, enum_fault, fault) ==
    IF build = "native" THEN native_list_credentials(v, order, enum_fault \/ fault)
    ELSE powershell_list_credentials(v, order, enum_fault, ~fault)

prompt_confirmation(ev) ==
    IF build = "native" THEN native_prompt_confirmation(ev)
    ELSE powershell_prompt_confirmation(ev)

prompt_password(ev, show_save_checkbox) ==
    IF build = "native" THEN native_prompt_password(ev, show_save_checkbox)
    ELSE powershell_prompt_password(ev)

ConfirmEvents == IF build = "native" THEN NativeConfirmEvents ELSE PowershellConfirmEvents

SecretEvents == IF build = "native" THEN NativeSecretEvents ELSE PowershellSecretEvents

\* the ways an invocation ends: print!, Ok(()) is exit status 0; process::exit(1);
\* an Err returned from main is written to stderr and is exit status 1
ExitOk(out) ==
    /\ stdout' = Append(stdout, out)
    /\ exit_code' = 0
    /\ pc' = "done"
    /\ UNCHANGED stderr

ExitCancelled ==
    /\ exit_code' = 1
    /\ pc' = "cancelled"
    /\ UNCHANGED <<stdout, stderr>>

ExitErr(msg) ==
    /\ stderr' = Append(stderr, <<"Error: ", msg>>)
    /\ exit_code' = 1
    /\ pc' = "failed"
    /\ UNCHANGED stdout

Init ==
    /\ build \in {"native", "powershell"}
    /\ vault = EmptyVault
    /\ pc = "start"
    /\ \E p \in AskPrompts : Fresh(p)
    /\ invocations = 1
    /\ prev = NoPrev

Classify ==
    /\ pc = "start"
    /\ is_host' = is_host_authenticity_prompt(prompt)
    /\ pc' = IF is_host' THEN "confirm" ELSE "extract"
    /\ UNCHANGED <<build, vault, prompt, key_path, get_result, ui, dlg_result, store_result,
                   stdout, stderr, exit_code, calls, invocations, prev>>

ConfirmEnd(r) ==
    IF r.kind = "some" THEN ExitOk(r.val)
    ELSE IF r.kind = "none" THEN ExitCancelled
    ELSE ExitErr(r.err)

Confirm ==
    /\ pc = "confirm"
    /\ \E ev \in ConfirmEvents :
        LET r == prompt_confirmation(ev)
        IN  /\ ui' = ev
            /\ dlg_result' = r
            /\ calls' = Append(calls, Call("confirm", prompt, FALSE))
            /\ ConfirmEnd(r)
    /\ UNCHANGED <<build, vault, prompt, is_host, key_path, get_result, store_result,
                   invocations, prev>>

ExtractKeyPath ==
    /\ pc = "extract"
    /\ key_path' = extract_key_path(prompt)
    /\ pc' = IF key_path'.some THEN "get" ELSE "prompt"
    /\ UNCHANGED <<build, vault, prompt, is_host, get_result, ui, dlg_result, store_result,
                   stdout, stderr, exit_code, calls, invocations, prev>>

\* A lookup whose cached secret is shown in the dialog instead of being printed.
LookupEnd_hit_prompts(r) ==
    IF ~r.ok THEN ExitErr(r.err)
    ELSE /\ pc' = "prompt"
         /\ UNCHANGED <<stdout, stderr, exit_code>>

\* A lookup whose failure counts as a miss.
LookupEnd_error_is_miss(r) ==
    IF r.ok /\ r.opt.some THEN ExitOk(r.opt.val)
    ELSE /\ pc' = "prompt"
         /\ UNCHANGED <<stdout, stderr, exit_code>>

LookupEnd(r) ==
    IF ~r.ok THEN ExitErr(r.err)
    ELSE IF r.opt.some THEN ExitOk(r.opt.val)
    ELSE /\ pc' = "prompt"
         /\ UNCHANGED <<stdout, stderr, exit_code>>

GetCredential ==
    /\ pc = "get"
    /\ \E f1 \in BOOLEAN, f2 \in BOOLEAN :
        \E r \in {get_credential(vault, key_path.val, f1, f2)} :
            /\ get_result' = Returned(r)
            /\ calls' = Append(calls, Call("get", key_path.val, FALSE))
            /\ LookupEnd(r)
    /\ UNCHANGED <<build, vault, prompt, is_host, key_path, ui, dlg_result, store_result,
                   invocations, prev>>

\* A secret flow in which a closed dialog counts as an empty secret.
PromptEnd_cancel_prints(r) ==
    IF r.kind = "some"
    THEN IF r.save /\ key_path.some
         THEN /\ pc' = "store"
              /\ UNCHANGED <<stdout, stderr, exit_code>>
         ELSE ExitOk(r.val)
    ELSE IF r.kind = "none" THEN ExitOk(<<>>)
    ELSE ExitErr(r.err)

\* A secret flow that stores whether or not the user asked for it.
PromptEnd_ignores_save(r) ==
    IF r.kind = "some"
    THEN IF key_path.some
         THEN /\ pc' = "store"
              /\ UNCHANGED <<stdout, stderr, exit_code>>
         ELSE ExitOk(r.val)
    ELSE IF r.kind = "none" THEN ExitCancelled
    ELSE ExitErr(r.err)

PromptEnd(r) ==
    IF r.kind = "some"
    THEN IF r.save /\ key_path.some
         THEN /\ pc' = "store"
              /\ UNCHANGED <<stdout, stderr, exit_code>>
         ELSE ExitOk(r.val)
    ELSE IF r.kind = "none" THEN ExitCancelled
    ELSE ExitErr(r.err)

\* A dialog that always offers to save.
allow_persist_always(kp) == TRUE

\* the second argument of dialog::prompt_password: key_path.is_some()
allow_persist(kp) == kp.some

PromptPassword ==
    /\ pc = "prompt"
    /\ \E ev \in SecretEvents :
        LET r == prompt_password(ev, allow_persist(key_path))
        IN  /\ ui' = ev
            /\ dlg_result' = r
            /\ calls' = Append(calls, Call("prompt_secret", prompt, allow_persist(key_path)))
            /\ PromptEnd(r)
    /\ UNCHANGED <<build, vault, prompt, is_host, key_path, get_result, store_result,
                   invocations, prev>>

\* A store whose failure is returned with the ? operator.
StoreEnd_fatal(w, password) ==
    IF w.ok THEN ExitOk(password)
    ELSE /\ stderr' = Append(stderr, <<"Error: ">> \o w.err)
         /\ exit_code' = 1
         /\ pc' = "failed"
         /\ UNCHANGED stdout

\* A store whose failure is reported after the secret has been printed.
StoreEnd_prints_then_fails(w, password) ==
    IF w.ok THEN ExitOk(password)
    ELSE /\ stdout' = Append(stdout, password)
         /\ stderr' = Append(stderr, <<"Error: ">> \o w.err)
         /\ exit_code' = 1
         /\ pc' = "failed"

StoreEnd(w, password) ==
    IF w.ok THEN ExitOk(password)
    ELSE /\ stderr' = Append(stderr, <<"Warning: Failed to save credential: ">> \o w.err)
         /\ stdout' = Append(stdout, password)
         /\ exit_code' = 0
         /\ pc' = "done"

StoreCredential ==
    /\ pc = "store"
    /\ \E outcome \in StoreOutcomes :
        \E w \in {store_credential(vault, key_path.val, dlg_result.val, outcome)} :
            /\ vault' = w.vault
            /\ store_result' = Returned(IF w.ok THEN Ok(None) ELSE Err(outcome))
            /\ calls' = Append(calls, Call("store", key_path.val, FALSE))
            /\ StoreEnd(w, dlg_result.val)
    /\ UNCHANGED <<build, prompt, is_host, key_path, get_result, ui, dlg_result,
                   invocations, prev>>

\* the caller runs the program again, the vault is what the last run left
NextInvocation ==
    /\ pc \in Terminal
    /\ invocations < MaxInvocations
    /\ prev' = [valid |-> TRUE, prompt |-> prompt, key_path |-> key_path,
                get_result |-> get_result, dlg_result |-> dlg_result,
                store_result |-> store_result, stdout |-> stdout, stderr |-> stderr,
                exit_code |-> exit_code, pc |-> pc, vault |-> vault]
    /\ invocations' = invocations + 1
    /\ pc' = "start"
    /\ prompt' \in AskPrompts
    /\ is_host' = FALSE
    /\ key_path' = None
    /\ get_result' = NoResult
    /\ ui' = NoEvent
    /\ dlg_result' = NoDialog
    /\ store_result' = NoResult
    /\ stdout' = <<>>
    /\ stderr' = <<>>
    /\ exit_code' = -1
    /\ calls' = <<>>
    /\ UNCHANGED <<build, vault>>

Next ==
    \/ Classify
    \/ Confirm
    \/ ExtractKeyPath
    \/ GetCredential
    \/ PromptPassword
    \/ StoreCredential
    \/ NextInvocation

Spec == Init /\ [][Next]_vars

\* the steps of one invocation; at most one of them can be taken in a state
Step ==
    \/ Classify
    \/ Confirm
    \/ ExtractKeyPath
    \/ GetCredential
    \/ PromptPassword
    \/ StoreCredential

\* Every call returns: a step of an invocation that can be taken is taken.  The
\* caller is free not to run the program again.
Fairness == WF_vars(Step)

\* a vault in which an earlier invocation has stored "p" for the key /k/id_rsa
StoredVault ==
    native_store_credential(EmptyVault, <<"/", "k", "/", "i", "d", "_", "r", "s", "a">>,
                            <<"p">>, FALSE).vault

\* one invocation, started on a vault that earlier invocations may have written
InitLive ==
    /\ build \in {"native", "powershell"}
    /\ vault \in {EmptyVault, StoredVault}
    /\ pc = "start"
    /\ \E p \in AskPrompts : Fresh(p)
    /\ invocations = 1
    /\ prev = NoPrev

SpecLive == InitLive /\ [][Step]_vars /\ Fairness

----------------------------------------------------------------------------
(* Backend specification: the three functions of the credential module are *)
(* called in any order on a vault that another application also uses, and  *)
(* "winaskpass --list" (handle_list) prints what list_credentials returns. *)

MaxCalls == 3

\* identifiers with a slash, and with a leading space, a character outside the
\* basic plane and a quote
BackendIds == {<<"/", "k">>, <<" ", "U+1F511", "'">>}

BackendSecrets == {<<>>, <<"p">>, <<" ", "p", "'">>}

\* a credential of another application
OtherTarget == encode_utf16(<<"g", "i", "t", ":", "h">>)

OtherVault == [t \in {OtherTarget} |-> Blob(encode_utf16(<<"p">>))]

\* one call of the log: fault is whether the platform failed under it, out is what
\* it returned, <<x>> for Some(x), <<>> for None, the identifiers for a list
BackendCall(op, id, secret, fault, ok, out) ==
    [op |-> op, id |-> id, secret |-> secret, fault |-> fault, ok |-> ok, out |-> out]

InitBackend ==
    /\ build \in {"native", "powershell"}
    /\ vault \in {EmptyVault, OtherVault}
    /\ pc = "api"
    /\ Fresh(<<>>)
    /\ invocations = 0
    /\ prev = NoPrev

StoreCall ==
    /\ pc = "api"
    /\ Len(calls) < MaxCalls
    /\ \E id \in BackendIds, secret \in BackendSecrets, outcome \in {"ok", "message"} :
        LET w == store_credential(vault, id, secret, outcome)
        IN  /\ vault' = w.vault
            /\ store_result' = Returned(IF w.ok THEN Ok(None) ELSE Err(outcome))
            /\ calls' = Append(calls, BackendCall("store", id, secret, outcome # "ok", w.ok, <<>>))
    /\ UNCHANGED <<build, pc, prompt, is_host, key_path, get_result, ui, dlg_result,
                   stdout, stderr, exit_code, invocations, prev>>

GetCall ==
    /\ pc = "api"
    /\ Len(calls) < MaxCalls
    /\ \E id \in BackendIds, f1 \in BOOLEAN, f2 \in BOOLEAN :
        LET r == get_credential(vault, id, f1, f2)
        IN  /\ get_result' = Returned(r)
            /\ calls' = Append(calls, BackendCall("get", id, <<>>, f1 \/ f2, r.ok,
                                                  IF r.opt.some THEN <<r.opt.val>> ELSE <<>>))
    /\ UNCHANGED <<build, vault, pc, prompt, is_host, key_path, ui, dlg_result, store_result,
                   stdout, stderr, exit_code, invocations, prev>>

\* handle_list: the lines it prints
ListLines(keys) ==
    IF keys = <<>> THEN << <<"No SSH credentials stored.">> >>
    ELSE << <<"Stored SSH credentials:">> >> \o [i \in 1..Len(keys) |-> <<"  ">> \o keys[i]]

HandleList ==
    /\ pc = "api"
    /\ Len(calls) < MaxCalls
    /\ \E enum_fault \in BOOLEAN, fault \in BOOLEAN :
        \E order \in Enumerations(CredEnumerateW(vault, encode_utf16(CREDENTIAL_PREFIX),
                                                 enum_fault).targets) :
            LET r == list_credentials(vault, order, enum_fault, fault)
            IN  /\ calls' = Append(calls, BackendCall("list", <<>>, <<>>, enum_fault \/ fault, r.ok, r.keys))
                /\ IF r.ok
                   THEN /\ stdout' = ListLines(r.keys)
                        /\ stderr' = <<>>
                        /\ exit_code' = 0
                   ELSE /\ stdout' = <<>>
                        /\ stderr' = << <<"Error: ", r.err>> >>
                        /\ exit_code' = 1
    /\ UNCHANGED <<build, vault, pc, prompt, is_host, key_path, get_result, ui, dlg_result,
                   store_result, invocations, prev>>

NextBackend == StoreCall \/ GetCall \/ HandleList

SpecBackend == InitBackend /\ [][NextBackend]_vars

----------------------------------------------------------------------------
(* Properties of the prompt classifier *)

\* pat occurs in s, stated over all positions
HasSubstring(s, pat) ==
    \E i \in 1..(Len(s) + 1) :
        /\ i + Len(pat) - 1 <= Len(s)
        /\ \A j \in 1..Len(pat) : s[i + j - 1] = pat[j]

\* positions of c in s
Positions(s, c) == {i \in 1..Len(s) : s[i] = c}

SetMin(S) == CHOOSE x \in S : \A y \in S : x <= y

SetMax(S) == CHOOSE x \in S : \A y \in S : x >= y

\* s without its leading and trailing whitespace
Trimmed(s) ==
    LET keep == {i \in 1..Len(s) : ~IsWhitespace(s[i])}
    IN  IF keep = {} THEN <<>> ELSE SubSeq(s, SetMin(keep), SetMax(keep))

\* the text strictly between the first and the last quote character of s
BetweenQuotes(s) ==
    LET q == Positions(s, "'")
    IN  IF q = {} THEN <<>> ELSE SubSeq(s, SetMin(q) + 1, SetMax(q) - 1)

\* the text after the first occurrence of pat in s
AfterFirst(s, pat) ==
    LET at == {i \in 1..Len(s) : /\ i + Len(pat) - 1 <= Len(s)
                                 /\ SubSeq(s, i, i + Len(pat) - 1) = pat}
    IN  IF at = {} THEN <<>> ELSE SubSeq(s, SetMin(at) + Len(pat), Len(s))

\* s without one trailing colon
WithoutOneColon(s) ==
    IF s # <<>> /\ s[Len(s)] = ":" THEN SubSeq(s, 1, Len(s) - 1) ELSE s

\* what the keyword heuristic is said to yield: the text after "for ", one
\* trailing colon and the surrounding whitespace stripped
KeywordText(s) == Trimmed(WithoutOneColon(Trimmed(AfterFirst(s, ForSpace))))

\* C7: classify returns HostTrustConfirmation exactly for the prompts that contain
\* "authenticity of host" or "continue connecting (yes/no" (case-sensitive), and
\* SecretRequest for every other prompt.
C7_ClassifyBySubstring ==
    pc \in {"classified", "extracted"} =>
        (is_host <=> (\/ HasSubstring(prompt, AuthenticityOfHost)
                      \/ HasSubstring(prompt, ContinueConnecting)))

\* C7 witness: a prompt with the second phrase alone, and the first one only in
\* another case, has been classified as a host-trust confirmation.
C7_Witness ==
    /\ pc = "classified"
    /\ is_host
    /\ ~HasSubstring(prompt, AuthenticityOfHost)
    /\ HasSubstring(prompt, AuthenticityCapital)
    /\ HasSubstring(prompt, ContinueConnecting)

\* C8 as stated: whenever the trimmed prompt contains at least one quote character,
\* extract_identifier returns the text strictly between the first and the last one.
C8_AtLeastOneQuote ==
    (pc = "extracted" /\ Cardinality(Positions(Trimmed(prompt), "'")) >= 1) =>
        key_path = Some(BetweenQuotes(Trimmed(prompt)))

\* C8 amended: whenever the trimmed prompt contains at least two quote characters,
\* extract_identifier returns the text strictly between the first and the last one,
\* however many there are and whatever else the prompt contains.
C8_AtLeastTwoQuotes ==
    (pc = "extracted" /\ Cardinality(Positions(Trimmed(prompt), "'")) >= 2) =>
        key_path = Some(BetweenQuotes(Trimmed(prompt)))

\* C8 witness: three quote characters and "for " in one prompt, and the identifier
\* is the text between the outer quotes, the middle quote included.
C8_Witness ==
    /\ pc = "extracted"
    /\ Cardinality(Positions(prompt, "'")) = 3
    /\ HasSubstring(prompt, ForSpace)
    /\ key_path.some
    /\ Positions(key_path.val, "'") # {}

\* C9 as stated: for a prompt without quote characters that contains "for ", when
\* the text after the first "for ", one trailing colon and the surrounding
\* whitespace stripped, is non-empty, extract_identifier returns that text.
C9_KeywordOneColon ==
    (/\ pc = "extracted"
     /\ Positions(prompt, "'") = {}
     /\ HasSubstring(prompt, ForSpace)
     /\ KeywordText(prompt) # <<>>) =>
        key_path = Some(KeywordText(prompt))

\* C10 as stated: extract_identifier returns no identifier whenever neither the
\* quoted span nor the keyword text is non-empty, and an identifier it returns is
\* never the empty string.
C10_NoneOrNonEmpty ==
    pc = "extracted" =>
        /\ (BetweenQuotes(Trimmed(prompt)) = <<>> /\ KeywordText(prompt) = <<>>) =>
                key_path = None
        /\ key_path.some => key_path.val # <<>>

----------------------------------------------------------------------------
(* Properties of the askpass flow *)

\* the previous invocation found nothing in the vault, got Secret(value, persist)
\* with persist set from the dialog, and stored it successfully
PrevStored ==
    /\ prev.valid
    /\ prev.key_path.some
    /\ prev.get_result.called /\ prev.get_result.ok /\ ~prev.get_result.opt.some
    /\ prev.dlg_result.kind = "some" /\ prev.dlg_result.save
    /\ prev.store_result.called /\ prev.store_result.ok

\* this invocation has the prompt of the previous one and has ended, its lookup
\* not having failed
SamePromptEnded ==
    /\ prompt = prev.prompt
    /\ pc \in Terminal
    /\ get_result.called => get_result.ok

\* this invocation printed value and nothing else, exited 0, showed no dialog
PrintedFromCache(value) ==
    /\ pc = "done"
    /\ stdout = <<value>>
    /\ exit_code = 0
    /\ ~Called("prompt_secret")
    /\ ~Called("confirm")

ReadBackUnchanged(value) ==
    /\ value # <<>>
    /\ build = "powershell" => Trimmed(value) = value

C2_CacheHitPrintsSecret ==
    (get_result.called /\ get_result.ok /\ get_result.opt.some) =>
        /\ key_path.some
        /\ PrintedFromCache(get_result.opt.val)
        /\ ~Called("store")

\* C2 witness: a lookup has returned a stored secret and the invocation is over.
C2_Witness ==
    /\ get_result.called /\ get_result.ok /\ get_result.opt.some
    /\ get_result.opt.val # <<>>
    /\ pc = "done"

\* C3: whenever the dialog returns Cancelled, in either flow, the invocation ends
\* with exit code 1, writes nothing to stdout and does not call store.
C3_CancelledExitsOne ==
    dlg_result.kind = "none" =>
        /\ pc = "cancelled"
        /\ exit_code = 1
        /\ stdout = <<>>
        /\ ~Called("store")

\* C3 witness: the secret dialog of a prompt with an identifier was cancelled after
\* the confirmation dialog of the previous invocation was cancelled.
C3_Witness ==
    /\ pc = "cancelled"
    /\ ~is_host /\ key_path.some /\ Called("prompt_secret")
    /\ dlg_result.kind = "none"
    /\ prev.valid /\ prev.pc = "cancelled" /\ prev.get_result = NoResult
    /\ prev.dlg_result.kind = "none"

\* C4: in the confirmation flow, the answer Yes makes stdout exactly "yes", the
\* answer No exactly "no", and both end Done with exit 0.
C4_YesNoVerbatim ==
    /\ ui.kind \in {"IDYES", "Yes"} => (stdout = <<Yes>> /\ pc = "done" /\ exit_code = 0)
    /\ ui.kind \in {"IDNO", "No"} => (stdout = <<No>> /\ pc = "done" /\ exit_code = 0)

\* C4 witness: the user answered No to the message box and "no" was printed.
C4_Witness ==
    /\ is_host
    /\ ui.kind = "IDNO"
    /\ stdout = <<<<"n", "o">>>>
    /\ exit_code = 0

\* C5: after Secret(value, persist=true) with an identifier, a failing store does
\* not fail the invocation: value is printed and the invocation ends Done, exit 0.
C5_StoreFailureNotFatal ==
    (store_result.called /\ ~store_result.ok) =>
        /\ pc = "done"
        /\ stdout = <<dlg_result.val>>
        /\ exit_code = 0

\* C5 witness: a store failed, the warning is on stderr and the typed secret on
\* stdout.
C5_Witness ==
    /\ store_result.called /\ ~store_result.ok
    /\ ui.kind = "ok" /\ ui.ticked /\ ui.typed = <<"p">>
    /\ stdout = <<<<"p">>>>
    /\ stderr # <<>>

\* C6: if the lookup fails with a backend error, the invocation ends Failed: the
\* exit code is not 0, nothing is on stdout, and neither the secret dialog nor
\* store is called.
C6_LookupFailureFatal ==
    (get_result.called /\ ~get_result.ok) =>
        /\ pc = "failed"
        /\ exit_code # 0
        /\ stdout = <<>>
        /\ ~Called("prompt_secret")
        /\ ~Called("store")

\* C6 witness: the fallback script of the PowerShell lookup failed while the vault
\* held a secret for the identifier.
C6_Witness ==
    /\ build = "powershell"
    /\ get_result.called /\ ~get_result.ok
    /\ key_path.some
    /\ encode_utf16(target_name(key_path.val)) \in DOMAIN vault
    /\ pc = "failed"


----------------------------------------------------------------------------
(* Properties of the backend *)

\* the identifiers of the successful stores before call i
StoredBefore(i) == {calls[j].id : j \in {k \in 1..(i - 1) : calls[k].op = "store" /\ calls[k].ok}}

\* the vault targets that read as the target name of id
EntriesOf(id) == {t \in DOMAIN vault : from_utf16_lossy(t) = target_name(id)}

\* C11: round trip.  A successful store(id, secret) followed by get(id) returns
\* exactly secret, neither absent nor altered, whatever the identifier; stated here
\* for the secrets that are not empty.
C11_RoundTrip ==
    \A i \in 1..(Len(calls) - 1) :
        (/\ calls[i].op = "store" /\ calls[i].ok /\ calls[i].secret # <<>>
         /\ calls[i + 1].op = "get" /\ calls[i + 1].ok
         /\ calls[i + 1].id = calls[i].id)
        => calls[i + 1].out = <<calls[i].secret>>

\* C12: overwrite.  store(id, A) then store(id, B), both successful, leave get(id)
\* equal to B, not A nor a mix of both, and one vault entry for id; stated here for
\* the B that are not empty.
C12_Overwrite ==
    \A i \in 1..(Len(calls) - 2) :
        (/\ calls[i].op = "store" /\ calls[i].ok
         /\ calls[i + 1].op = "store" /\ calls[i + 1].ok /\ calls[i + 1].secret # <<>>
         /\ calls[i + 1].id = calls[i].id
         /\ calls[i + 2].op = "get" /\ calls[i + 2].ok
         /\ calls[i + 2].id = calls[i].id)
        => /\ calls[i + 2].out = <<calls[i + 1].secret>>
           /\ Cardinality(EntriesOf(calls[i].id)) = 1

\* C13: a list under which the platform did not fail returns exactly the identifiers of the successful stores
\* made before it, each once and without the prefix: nothing for the credential of
\* another application, and the empty sequence when nothing was stored.
C13_ListIsStored ==
    \A i \in 1..Len(calls) :
        (calls[i].op = "list" /\ calls[i].ok /\ ~calls[i].fault)
        => /\ {calls[i].out[k] : k \in 1..Len(calls[i].out)} = StoredBefore(i)
           /\ Len(calls[i].out) = Cardinality(StoredBefore(i))


----------------------------------------------------------------------------
(* Further properties of the askpass flow *)

\* the lookup of this invocation returned and found nothing
CacheMiss == get_result.called /\ get_result.ok /\ ~get_result.opt.some

\* the positions of the calls of op in this invocation
CallsOf(op) == {i \in 1..Len(calls) : calls[i].op = op}

\* C14: in the secret flow, after a cache miss or when no identifier was extracted,
\* the dialog's prompt_password has been called exactly once, with the original
\* prompt text and with the save option offered exactly when an identifier was
\* extracted; the native dialog, given no save option, returns save = false.
C14_PromptOnceOnMiss ==
    (/\ pc \in Terminal \cup {"store"}
     /\ ~is_host
     /\ (~key_path.some \/ CacheMiss))
    => /\ Cardinality(CallsOf("prompt_secret")) = 1
       /\ \A i \in CallsOf("prompt_secret") :
            calls[i] = Call("prompt_secret", prompt, key_path.some)
       /\ (build = "native" /\ ~key_path.some) => ~dlg_result.save

\* a miss for an extracted identifier was followed by the dialog, which returned
C14_Witness ==
    /\ pc \in Terminal
    /\ key_path.some
    /\ CacheMiss
    /\ dlg_result.kind = "some"
    /\ \E i \in CallsOf("prompt_secret") : calls[i].flag


\* what the platform or the child process did that is a failure of the dialog layer
\* and not the user closing the dialog
DialogFailures == {"0", "Error", "pack_failed", "api_error", "unpack_failed",
                   "spawn_failed", "failed_no_output", "failed_with_output"}

\* C15: when the dialog layer fails and the user did not cancel, the invocation
\* ends Failed, with a non-zero exit status, a diagnostic on stderr and nothing on
\* stdout, in the confirm flow and in the secret flow; it never ends Cancelled.
C15_DialogFailureFails ==
    (pc \in Terminal /\ ui.kind \in DialogFailures)
    => /\ pc = "failed"
       /\ exit_code # 0
       /\ stderr # <<>>
       /\ stdout = <<>>


\* this invocation and the one before it were given the same prompt and vault, and
\* their calls ended alike; the secret the dialog returned is left free
SameButSecret ==
    /\ prev.valid
    /\ pc \in Terminal
    /\ prompt = prev.prompt
    /\ ~(prev.store_result.called /\ prev.store_result.ok)
    /\ dlg_result.kind = prev.dlg_result.kind
    /\ dlg_result.save = prev.dlg_result.save
    /\ dlg_result.err = prev.dlg_result.err
    /\ get_result.called = prev.get_result.called
    /\ get_result.ok = prev.get_result.ok
    /\ store_result.called = prev.store_result.called
    /\ store_result.ok = prev.store_result.ok
    /\ store_result.err = prev.store_result.err

\* C16: what an invocation writes to stderr does not depend on the secret: two
\* invocations that differ only in the secret write the same stderr, also when the
\* store fails and the warning is printed; stated for the prompts whose identifier
\* is not empty.
C16_StderrIndependentOfSecret ==
    (SameButSecret /\ (key_path.some => key_path.val # <<>>)) => stderr = prev.stderr


\* the vault after value is written under the target of identifier, every other
\* entry as it was
VaultWith(identifier, value) ==
    LET target == encode_utf16(target_name(identifier))
    IN  [t \in DOMAIN vault \cup {target} |->
            IF t = target THEN Blob(encode_utf16(value)) ELSE vault[t]]

\* C17: a step of an invocation changes the vault only as the one store of the
\* secret flow does: the dialog returned Secret(value, persist = true), an
\* identifier was extracted, no store was made before in this invocation, and the
\* vault afterwards is the vault before with value under the identifier; every
\* other step leaves the vault as it was, and no entry is ever removed.
C17_VaultFrame ==
    [][vault' # vault =>
        /\ pc = "store"
        /\ ~is_host
        /\ key_path.some
        /\ dlg_result.kind = "some"
        /\ dlg_result.save
        /\ CallsOf("store") = {}
        /\ vault' = VaultWith(key_path.val, dlg_result.val)
        /\ DOMAIN vault \subseteq DOMAIN vault']_vars

\* the second invocation has stored under another identifier than the first
C17_Witness ==
    /\ pc = "done"
    /\ prev.valid
    /\ store_result.called /\ store_result.ok
    /\ vault # prev.vault
    /\ Cardinality(DOMAIN vault) = 2


\* the vault entry of this invocation's identifier when the invocation began
StoredAtStart == prev.vault[encode_utf16(target_name(key_path.val))]

\* this invocation began with a non-empty secret stored under its identifier, the
\* identifier not being the empty string
HadStoredSecret ==
    /\ prev.valid
    /\ key_path.some
    /\ key_path.val # <<>>
    /\ encode_utf16(target_name(key_path.val)) \in DOMAIN prev.vault
    /\ StoredAtStart.size > 0

\* C18: once a non-empty secret is stored under an identifier, every later
\* invocation whose prompt yields that identifier, the retry prompt included,
\* prints the stored secret, shows no dialog, calls no store and leaves the vault
\* as it was (the lookup not failing).
C18_StoredSecretStays ==
    (/\ pc \in Terminal
     /\ HadStoredSecret
     /\ get_result.called => get_result.ok)
    => /\ pc = "done"
       /\ stdout = <<from_utf16_lossy(StoredAtStart.data)>>
       /\ CallsOf("prompt_secret") = {}
       /\ CallsOf("store") = {}
       /\ vault = prev.vault


\* C19: every invocation that starts reaches a terminal state, Done, Cancelled or
\* Failed, and stays in that one state until the caller runs the program again;
\* stdout is written at most once in an invocation, and only in one that ends Done.
C19_TerminatesOnce ==
    /\ (pc = "start") ~> (pc \in Terminal)
    /\ [][(pc \in Terminal) => (pc' = pc \/ pc' = "start")]_vars
    /\ [](Len(stdout) <= 1 /\ (stdout # <<>> => pc = "done" /\ exit_code = 0))

\* an invocation went through the lookup, the dialog and the store, and printed
C19_Witness ==
    /\ pc = "done"
    /\ Len(stdout) = 1
    /\ CallsOf("get") # {}
    /\ CallsOf("prompt_secret") # {}
    /\ CallsOf("store") # {}

====
